---- MODULE Spec2Model ----
(***************************************************************************)
(* Model of rusty_matrix (src/src/main.rs): the per-column rain simulator  *)
(* (Column::new / reset / update / draw) and the application controller    *)
(* loop of main (Matrix / Paused / Config).                                *)
(*                                                                         *)
(* Characters are Unicode code points (integers).  Rows and columns are    *)
(* numbered from 0 as in the source; the cells of a column (a Vec<Cell>)   *)
(* are a sequence, row r being its element r + 1 (see CellAt).  Random     *)
(* draws (rand::thread_rng) and terminal events are inputs chosen with \E. *)
(***************************************************************************)
EXTENDS Integers, Sequences, FiniteSets, TLC

VARIABLES
    columns,        \* main: columns, a function 0..n-1 -> Column
    app_state,      \* main: app_state
    config,         \* main: config
    language_keys,  \* main: language_keys (order of ALL_CHAR_SETS.keys())
    term,           \* terminal surface flags: alternate screen, cursor, raw mode
    pc,             \* where main is: "loop", or how it ended
    frames,         \* observer: number of animation frames performed so far
    last,           \* observer: what the last loop iteration received and did
    obs,            \* observer: per column, what its last update call did
    build           \* the profile the program was compiled with

vars == <<columns, app_state, config, language_keys, term, pc, frames, last, obs, build>>

----------------------------------------------------------------------------
(* Bounds of the exploration *)

\* largest terminal height explored by the column specification
MaxColHeight == 12
\* number of animation frames the controller specification explores
MaxFrames == 2

(* Program constants *)

\* smallest terminal height for which gen_range(5..=height/2) is non-empty
MinHeight == 10
MinLen == 5
MinSpeed == 1
MaxSpeed == 4
BandWidth == 3
StartHead == -1
MinSpeedLevel == 1
MaxSpeedLevel == 10
InitSpeedLevel == 5
Blank == 32
\* the range of i16 (height, cells.len(), head and len are compared as i16)
I16Min == -32768
I16Max == 32767
\* terminal heights at startup: the smallest that Column::new accepts, one row
\* less, and the first that `height as i16` turns negative
StartHeights == {MinHeight - 1, MinHeight, I16Max + 1}
\* terminal height of the tall column: the smallest height for which the i16
\* sum of line 161 can overflow (height + height / 2 > I16Max), 21846 rows
TallHeight == (2 * (I16Max + 1)) \div 3 + 1

\* terminal widths explored: width / 2 columns are created (0 or 1 here)
Widths == {1, 2, 3}

----------------------------------------------------------------------------
(* Character sets: ALL_CHAR_SETS, keyed by name, as sets of code points *)

Punctuation ==
    {33, 64, 35, 36, 37, 94, 38, 42, 40, 41, 95, 43, 45, 61, 91, 93,
     123, 125, 124, 59, 58, 39, 44, 46, 60, 62, 47, 63, 96, 126}

ALL_CHAR_SETS ==
    [k \in {"English", "Traditional Chinese", "Simplified Chinese"} |->
        CASE k = "English" -> (97..122) \cup (65..90) \cup (48..57) \cup Punctuation
          [] k = "Traditional Chinese" -> 19968..40869
          [] k = "Simplified Chinese" -> 19968..40959]

\* The code points the random draw is sampled at ('a', U+4E00, and the blank,
\* which belongs to no set).
GlyphSample == {32, 97, 19968}

\* get_random_char: the possible results of one draw for a key
get_random_char(language_key) == {g \in GlyphSample : g \in ALL_CHAR_SETS[language_key]}

----------------------------------------------------------------------------
(* Themes and speed table *)

THEMES ==
    [i \in 0..3 |->
        CASE i = 0 -> [head |-> "White", trail |-> "Green",   fade |-> "DarkGreen"]
          [] i = 1 -> [head |-> "White", trail |-> "Blue",    fade |-> "DarkBlue"]
          [] i = 2 -> [head |-> "White", trail |-> "Red",     fade |-> "DarkRed"]
          [] i = 3 -> [head |-> "Cyan",  trail |-> "Magenta", fade |-> "DarkMagenta"]]

ThemesLen == Cardinality(DOMAIN THEMES)

SPEED_DURATIONS ==
    [i \in 0..9 |->
        CASE i = 0 -> 100 [] i = 1 -> 88 [] i = 2 -> 76 [] i = 3 -> 64
          [] i = 4 -> 52  [] i = 5 -> 40 [] i = 6 -> 33 [] i = 7 -> 28
          [] i = 8 -> 24  [] i = 9 -> 20]

----------------------------------------------------------------------------
(* Cell and Column *)

CellDefault == [char |-> Blank, color |-> "Black", lifetime |-> 0]

\* cells.len()
Height(col) == Len(col.cells)

\* the row numbers of a cell vector, and cells[r] for a row number r
Rows(cells) == 0..(Len(cells) - 1)
CellAt(cells, r) == cells[r + 1]

\* vec![Cell::default(); height]
NewCells(height) == SubSeq([i \in 1..height |-> CellDefault], 1, height)

\* `n as i16` for an unsigned n: the low 16 bits in two's complement
AsI16(n) == ((n - I16Min) % (I16Max - I16Min + 1)) + I16Min

\* Rust's integer division: the quotient is truncated toward zero
DivTrunc(a, b) == IF a >= 0 THEN a \div b ELSE 0 - ((0 - a) \div b)

\* the length range without the division by 2
LenRange_NoHalf(height) == MinLen..AsI16(height)

\* lines 111 and 121: the stream lengths gen_range(5..=height as i16 / 2) can
\* draw.  The range is empty (gen_range panics) for a height below 10 and for
\* a height of 32768 or more, which the cast turns negative.
LenRange(height) == MinLen..DivTrunc(AsI16(height), 2)
SpeedRange == MinSpeed..MaxSpeed

ColumnNew(x, height, len, speed) ==
    [x |-> x,
     cells |-> NewCells(height),
     head |-> StartHead,
     len |-> len,
     speed |-> speed,
     counter |-> 0]

reset(col, len, speed) ==
    [col EXCEPT !.head = StartHead, !.len = len, !.speed = speed, !.counter = 0]

\* Decay without line 139: the glyph is not blanked
Decay_KeepGlyph(cell) ==
    IF cell.lifetime > 0
    THEN [cell EXCEPT !.lifetime = cell.lifetime - 1]
    ELSE cell

\* lines 135-142: lifetime decay, blanking the glyph when it reaches 0
Decay(cell) ==
    IF cell.lifetime > 0
    THEN IF cell.lifetime - 1 = 0
         THEN [cell EXCEPT !.lifetime = 0, !.char = Blank]
         ELSE [cell EXCEPT !.lifetime = cell.lifetime - 1]
    ELSE cell

\* recolouring with >= for >: the bright band is one row too wide
Recolor_Ge(cell, len, colors) ==
    IF cell.lifetime >= len - BandWidth
    THEN [cell EXCEPT !.color = colors.trail]
    ELSE [cell EXCEPT !.color = colors.fade]

\* lines 144-150: recolouring of every cell
Recolor(cell, len, colors) ==
    IF cell.lifetime > len - BandWidth
    THEN [cell EXCEPT !.color = colors.trail]
    ELSE [cell EXCEPT !.color = colors.fade]

\* lines 152-159: the head cell is overwritten when the head is on screen
WriteHead(cells, head, len, colors, glyph) ==
    IF head >= 0 /\ head < Len(cells)
    THEN [cells EXCEPT ![head + 1] = [char |-> glyph, color |-> colors.head,
                                      lifetime |-> len]]
    ELSE cells

\* the throttle with <= for <: one call too many is skipped
Throttled_Le(counter, speed) == counter <= speed

\* line 128: the throttle test, on the incremented counter
Throttled(counter, speed) == counter < speed

\* the builds of the program: with overflow checks (debug profile) and
\* without (release profile)
Builds == {"debug", "release"}

\* line 161: the i16 sum cells.len() as i16 + self.len leaves the range of
\* i16.  The debug build panics ("attempt to add with overflow"), the release
\* build wraps the sum.
ResetSumOverflows(height, len) ==
    \/ AsI16(height) + len > I16Max
    \/ AsI16(height) + len < I16Min

\* the two builds differ only where line 161 overflows: for a height at which
\* no length can overflow, one build stands for both
BuildsAt(height) ==
    IF \E len \in LenRange(height) : ResetSumOverflows(height, len)
    THEN Builds ELSE {"release"}

\* line 161: the reset test, on the incremented head, with the sum computed
\* in i16 (wrapped when it overflows, as the release build does)
ResetDue(head, height, len) == head >= AsI16(AsI16(height) + len)

\* Column::update.  glyph, newlen and newspeed are the random draws the call
\* may consume.  The result carries the new column and what the call did:
\* "throttled" (early return), "advanced", "reset" (reset() was called), or
\* "overflow" (the debug build panics at line 161, after the head write),
\* with the head and length compared at line 161.
update(col, colors, glyph, newlen, newspeed) ==
    LET counter1 == col.counter + 1 IN
    IF Throttled(counter1, col.speed)
    THEN [col |-> [col EXCEPT !.counter = counter1],
          did |-> "throttled", chk_head |-> col.head, chk_len |-> col.len]
    ELSE
      LET head1 == col.head + 1
          cells1 == SubSeq([i \in 1..Height(col) |->
                               Recolor(Decay(col.cells[i]), col.len, colors)],
                           1, Height(col))
          cells2 == WriteHead(cells1, head1, col.len, colors, glyph)
          col1 == [col EXCEPT !.counter = 0, !.head = head1, !.cells = cells2]
      IN IF build = "debug" /\ ResetSumOverflows(Height(col), col.len)
         THEN [col |-> col1,
               did |-> "overflow", chk_head |-> head1, chk_len |-> col.len]
         ELSE IF ResetDue(head1, Height(col), col.len)
         THEN [col |-> reset(col1, newlen, newspeed),
               did |-> "reset", chk_head |-> head1, chk_len |-> col.len]
         ELSE [col |-> col1,
               did |-> "advanced", chk_head |-> head1, chk_len |-> col.len]

\* Column::draw paints (one execute! per cell) only cells with lifetime > 0
Painted(col) == {r \in Rows(col.cells) : CellAt(col.cells, r).lifetime > 0}


----------------------------------------------------------------------------
(* Events, keys and the key matches of main *)

Keys == {"q", "Esc", " ", "c", "+", "=", "-", "Right", "Left", "Up", "Down", "x"}
\* an event that is not Event::Key (event::read may return one)
NonKeys == {"Resize"}
QuitKeys == {"q", "Esc"}

\* lines 214-219: the key match of the Matrix arm; "break" leaves the loop
MatrixKey(code) ==
    CASE code \in {"q", "Esc"} -> "break"
      [] code = " " -> "Paused"
      [] code = "c" -> "Config"
      [] OTHER -> "Matrix"

\* lines 236-240: the key match of the Paused arm
PausedKey(code) ==
    CASE code \in {"q", "Esc"} -> "break"
      [] code = " " -> "Matrix"
      [] OTHER -> "Paused"

\* decrease without the clamp at 1
SpeedDown_NoClamp(level) == IF level - 1 < 0 THEN -1 ELSE level - 1

\* previous theme clamped at 0 instead of wrapping
ThemePrev_NoWrap(i) == IF i = 0 THEN 0 ELSE i - 1

\* previous language wrapping to the length instead of the last index
LangPrev_PastEnd(i, n) == IF i = 0 THEN n ELSE i - 1

\* lines 264-269: the speed keys.  usize subtraction below 0 is an overflow
\* (a panic in a debug build), reported as -1 here.
SpeedUp(level) == IF level + 1 <= MaxSpeedLevel THEN level + 1 ELSE MaxSpeedLevel
SpeedDown(level) ==
    IF level - 1 < 0 THEN -1
    ELSE IF level - 1 >= MinSpeedLevel THEN level - 1 ELSE MinSpeedLevel

\* lines 270-279: the theme keys
ThemeNext(i) == (i + 1) % ThemesLen
ThemePrev(i) == IF i = 0 THEN ThemesLen - 1 ELSE i - 1

\* lines 280-289: the language keys
LangNext(i, n) == (i + 1) % n
LangPrev(i, n) == IF i = 0 THEN n - 1 ELSE i - 1

\* lines 262-291: the key match of the Config arm, on the pair (app_state, config)
ConfigKey(cfg, code) ==
    CASE code \in {"c", "Esc"} -> [state |-> "Matrix", config |-> cfg]
      [] code \in {"+", "="} ->
            [state |-> "Config",
             config |-> [cfg EXCEPT !.speed_level = SpeedUp(cfg.speed_level)]]
      [] code = "-" ->
            [state |-> "Config",
             config |-> [cfg EXCEPT !.speed_level = SpeedDown(cfg.speed_level)]]
      [] code = "Right" ->
            [state |-> "Config",
             config |-> [cfg EXCEPT !.theme_index = ThemeNext(cfg.theme_index)]]
      [] code = "Left" ->
            [state |-> "Config",
             config |-> [cfg EXCEPT !.theme_index = ThemePrev(cfg.theme_index)]]
      [] code = "Up" ->
            [state |-> "Config",
             config |-> [cfg EXCEPT !.language_index =
                            LangNext(cfg.language_index, Len(language_keys))]]
      [] code = "Down" ->
            [state |-> "Config",
             config |-> [cfg EXCEPT !.language_index =
                            LangPrev(cfg.language_index, Len(language_keys))]]
      [] OTHER -> [state |-> "Config", config |-> cfg]

\* the orders ALL_CHAR_SETS.keys() can produce (HashMap iteration order)
KeyOrders ==
    {s \in [1..3 -> DOMAIN ALL_CHAR_SETS] : \A i, j \in 1..3 : i # j => s[i] # s[j]}

\* the orders explored: English first, and English not first
SampleOrders ==
    {<<"English", "Traditional Chinese", "Simplified Chinese">>,
     <<"Simplified Chinese", "English", "Traditional Chinese">>}

\* language_keys[i] with the source's 0-based index
KeyAt(i) == language_keys[i + 1]

----------------------------------------------------------------------------
(* Observers *)

NoCols == [c \in {} |-> 0]

\* the observer of a column just created by Column::new
ObsInit(col) ==
    [did |-> "new", chk_head |-> StartHead, chk_len |-> 0, chk_speed |-> 0,
     calls |-> 0, since |-> 0, reset_at |-> 0,
     height |-> Height(col),
     colors |-> [head |-> "Black", trail |-> "Black", fade |-> "Black"]]

\* what the observer of a column records for one update call with result u:
\* also the height the column was created with, and the colour scheme passed
\* to the last call that advanced the head
Observe(o, col, u, colors) ==
    [did |-> u.did, chk_head |-> u.chk_head, chk_len |-> u.chk_len,
     chk_speed |-> col.speed,
     calls |-> IF u.did = "reset" THEN 0 ELSE o.calls + 1,
     since |-> IF u.did = "throttled" THEN o.since + 1 ELSE 0,
     reset_at |-> IF u.did = "reset" THEN o.calls + 1 ELSE 0,
     height |-> o.height,
     colors |-> IF u.did = "throttled" THEN o.colors ELSE colors]

\* what an iteration received, as the observer records it
Got(ev) == IF ev = "Timeout" THEN "timeout" ELSE IF ev \in Keys THEN "key" ELSE "nonkey"

TermInLoop == [alternate |-> TRUE, cursor_hidden |-> TRUE, raw |-> TRUE]


----------------------------------------------------------------------------
(* The controller: one action per kind of loop iteration of main *)

\* the draws one frame may consume: per column a glyph of the active
\* character set, and the length and speed a reset would draw.  A length and
\* speed that the call does not consume (no reset) are fixed at the minimum.
DrawsFor(cols, colors, language_key) ==
    {d \in [DOMAIN cols -> [glyph : get_random_char(language_key),
                            len : MinLen..MaxColHeight,
                            speed : SpeedRange]] :
        \A c \in DOMAIN cols :
            /\ d[c].len \in LenRange(Height(cols[c]))
            /\ \/ d[c].len = MinLen /\ d[c].speed = MinSpeed
               \/ update(cols[c], colors, d[c].glyph, d[c].len, d[c].speed).did = "reset"}

\* lines 226-229: col.update(colors, key) for every column, with draws d
UpdateAll(cols, colors, d) ==
    [c \in DOMAIN cols |-> update(cols[c], colors, d[c].glyph, d[c].len, d[c].speed)]

\* some update call of the frame panicked at line 161, and the first that did
Overflowed(u) == \E c \in DOMAIN u : u[c].did = "overflow"
FirstOverflow(u) ==
    CHOOSE c \in DOMAIN u :
        /\ u[c].did = "overflow"
        /\ \A b \in DOMAIN u : u[b].did = "overflow" => c <= b

\* the terminal calls of lines 226-229 for the first n columns
FrameLog(n) == [i \in 1..(2 * n) |-> IF i % 2 = 1 THEN "update" ELSE "draw"]

\* lines 212-213: poll, and read when poll reported an event
PollLog(ev) == IF ev = "Timeout" THEN <<"poll">> ELSE <<"poll", "read">>

\* lines 182-193: draw_ui
DrawUiLog(clear_screen) ==
    IF clear_screen THEN <<"clear", "print", "flush">> ELSE <<"print", "flush">>

\* the lookups of lines 212, 224, 225 and 251 are in range
IndexOk ==
    /\ config.speed_level - 1 \in DOMAIN SPEED_DURATIONS
    /\ config.theme_index \in DOMAIN THEMES
    /\ config.language_index + 1 \in DOMAIN language_keys
    /\ KeyAt(config.language_index) \in DOMAIN ALL_CHAR_SETS

\* main ends (return or panic): its locals are dropped
Ended(how, t, state, got, log, failed) ==
    /\ pc' = how
    /\ term' = t
    /\ columns' = NoCols
    /\ obs' = NoCols
    /\ last' = [state |-> state, got |-> got, log |-> log, failed |-> failed]
    /\ UNCHANGED <<build, app_state, config, language_keys, frames>>

\* lines 297-300: the cleanup after the loop; cfail names the call that fails
CleanupCalls == {"show", "leave", "disable_raw"}
Cleanup(state, got, log, cfail) ==
    CASE cfail = "show" ->
            Ended("io_error", term, state, got, log \o <<"show">>, "show")
      [] cfail = "leave" ->
            Ended("io_error", [term EXCEPT !.cursor_hidden = FALSE],
                  state, got, log \o <<"show", "leave">>, "leave")
      [] cfail = "disable_raw" ->
            Ended("io_error", [term EXCEPT !.cursor_hidden = FALSE, !.alternate = FALSE],
                  state, got, log \o <<"show", "leave", "disable_raw">>, "disable_raw")
      [] OTHER ->
            Ended("done", [cursor_hidden |-> FALSE, alternate |-> FALSE, raw |-> FALSE],
                  state, got, log \o <<"show", "leave", "disable_raw">>, "none")

\* the Matrix arm with the frame skipped whenever poll reported an event
MatrixFrame_TickOnTimeout(ev) ==
    /\ pc = "loop" /\ app_state = "Matrix"
    /\ frames < MaxFrames
    /\ ev \in ({"Timeout"} \cup NonKeys \cup Keys) \ QuitKeys
    /\ IF ~IndexOk
       THEN Ended("panicked", term, "Matrix", Got(ev), <<>>, "index")
       ELSE IF ev # "Timeout"
       THEN /\ app_state' = IF ev \in Keys THEN MatrixKey(ev) ELSE "Matrix"
            /\ last' = [state |-> "Matrix", got |-> Got(ev), log |-> PollLog(ev),
                        failed |-> "none"]
            /\ UNCHANGED <<build, columns, obs, frames, config, language_keys, term, pc>>
       ELSE \E d \in DrawsFor(columns, THEMES[config.theme_index], KeyAt(config.language_index)) :
              LET u == UpdateAll(columns, THEMES[config.theme_index], d) IN
              IF Overflowed(u)
              THEN Ended("panicked", term, "Matrix", Got(ev),
                         PollLog(ev) \o <<"clear">> \o FrameLog(FirstOverflow(u))
                           \o <<"update">>, "add_overflow")
              ELSE
              /\ columns' = [c \in DOMAIN columns |-> u[c].col]
              /\ obs' = [c \in DOMAIN columns |-> Observe(obs[c], columns[c], u[c],
                                THEMES[config.theme_index])]
              /\ app_state' = IF ev \in Keys THEN MatrixKey(ev) ELSE "Matrix"
              /\ frames' = frames + 1
              /\ last' = [state |-> "Matrix", got |-> Got(ev),
                          log |-> PollLog(ev) \o <<"clear">>
                                    \o FrameLog(Cardinality(DOMAIN columns))
                                    \o <<"flush">>,
                          failed |-> "none"]
              /\ UNCHANGED <<build, config, language_keys, term, pc>>

\* the Matrix arm with the frame skipped when the pause key is received
MatrixFrame_PauseSkipsFrame(ev) ==
    /\ pc = "loop" /\ app_state = "Matrix"
    /\ frames < MaxFrames
    /\ ev \in ({"Timeout"} \cup NonKeys \cup Keys) \ QuitKeys
    /\ IF ~IndexOk
       THEN Ended("panicked", term, "Matrix", Got(ev), <<>>, "index")
       ELSE IF ev \in Keys /\ MatrixKey(ev) = "Paused"
       THEN /\ app_state' = IF ev \in Keys THEN MatrixKey(ev) ELSE "Matrix"
            /\ last' = [state |-> "Matrix", got |-> Got(ev), log |-> PollLog(ev),
                        failed |-> "none"]
            /\ UNCHANGED <<build, columns, obs, frames, config, language_keys, term, pc>>
       ELSE \E d \in DrawsFor(columns, THEMES[config.theme_index], KeyAt(config.language_index)) :
              LET u == UpdateAll(columns, THEMES[config.theme_index], d) IN
              IF Overflowed(u)
              THEN Ended("panicked", term, "Matrix", Got(ev),
                         PollLog(ev) \o <<"clear">> \o FrameLog(FirstOverflow(u))
                           \o <<"update">>, "add_overflow")
              ELSE
              /\ columns' = [c \in DOMAIN columns |-> u[c].col]
              /\ obs' = [c \in DOMAIN columns |-> Observe(obs[c], columns[c], u[c],
                                THEMES[config.theme_index])]
              /\ app_state' = IF ev \in Keys THEN MatrixKey(ev) ELSE "Matrix"
              /\ frames' = frames + 1
              /\ last' = [state |-> "Matrix", got |-> Got(ev),
                          log |-> PollLog(ev) \o <<"clear">>
                                    \o FrameLog(Cardinality(DOMAIN columns))
                                    \o <<"flush">>,
                          failed |-> "none"]
              /\ UNCHANGED <<build, config, language_keys, term, pc>>

\* Matrix arm, an iteration that reaches the end of the arm: poll (and read),
\* the key match, then clear, update and draw of every column, flush.
MatrixFrame(ev) ==
    /\ pc = "loop" /\ app_state = "Matrix"
    /\ frames < MaxFrames
    /\ ev \in ({"Timeout"} \cup NonKeys \cup Keys) \ QuitKeys
    /\ IF ~IndexOk
       THEN Ended("panicked", term, "Matrix", Got(ev), <<>>, "index")
       ELSE \E d \in DrawsFor(columns, THEMES[config.theme_index], KeyAt(config.language_index)) :
              LET u == UpdateAll(columns, THEMES[config.theme_index], d) IN
              IF Overflowed(u)
              THEN Ended("panicked", term, "Matrix", Got(ev),
                         PollLog(ev) \o <<"clear">> \o FrameLog(FirstOverflow(u))
                           \o <<"update">>, "add_overflow")
              ELSE
              /\ columns' = [c \in DOMAIN columns |-> u[c].col]
              /\ obs' = [c \in DOMAIN columns |-> Observe(obs[c], columns[c], u[c],
                                THEMES[config.theme_index])]
              /\ app_state' = IF ev \in Keys THEN MatrixKey(ev) ELSE "Matrix"
              /\ frames' = frames + 1
              /\ last' = [state |-> "Matrix", got |-> Got(ev),
                          log |-> PollLog(ev) \o <<"clear">>
                                    \o FrameLog(Cardinality(DOMAIN columns))
                                    \o <<"flush">>,
                          failed |-> "none"]
              /\ UNCHANGED <<build, config, language_keys, term, pc>>

\* the Matrix arm with the quit key taking effect only after the frame
MatrixQuit_AfterFrame(ev, cfail) ==
    /\ pc = "loop" /\ app_state = "Matrix"
    /\ ev \in QuitKeys /\ MatrixKey(ev) = "break"
    /\ Cleanup("Matrix", Got(ev),
               PollLog(ev) \o <<"clear">> \o FrameLog(Cardinality(DOMAIN columns))
                 \o <<"flush">>, cfail)

\* Matrix arm, quit key: break, then the cleanup
MatrixQuit(ev, cfail) ==
    /\ pc = "loop" /\ app_state = "Matrix"
    /\ ev \in QuitKeys /\ MatrixKey(ev) = "break"
    /\ IF ~IndexOk
       THEN Ended("panicked", term, "Matrix", Got(ev), <<>>, "index")
       ELSE Cleanup("Matrix", Got(ev), PollLog(ev), cfail)

\* the events after which a failing terminal call is explored
FailEvents == {"Timeout", "Resize", "x", " "}

\* Matrix arm, a terminal call returns Err (the ? operator returns from main)
\* or the unwrap in Column::draw panics
MatrixFail(ev, stage) ==
    /\ pc = "loop" /\ app_state = "Matrix"
    /\ IndexOk
    /\ ev \in FailEvents
    /\ \/ /\ stage = "poll" /\ ev = "Timeout"
          /\ Ended("io_error", term, "Matrix", "none", <<"poll">>, "poll")
       \/ /\ stage = "read" /\ ev = "Timeout"
          /\ Ended("io_error", term, "Matrix", "none", <<"poll", "read">>, "read")
       \/ /\ stage = "clear" /\ ev \notin QuitKeys
          /\ Ended("io_error", term, "Matrix", Got(ev), PollLog(ev) \o <<"clear">>, "clear")
       \/ /\ stage = "draw" /\ ev \notin QuitKeys /\ frames < MaxFrames
          /\ \E d \in DrawsFor(columns, THEMES[config.theme_index], KeyAt(config.language_index)) :
             \E c \in DOMAIN columns :
                /\ Painted(UpdateAll(columns, THEMES[config.theme_index], d)[c].col) # {}
                /\ Ended("panicked", term, "Matrix", Got(ev),
                         PollLog(ev) \o <<"clear">> \o FrameLog(c + 1), "draw")
       \/ /\ stage = "flush" /\ ev \notin QuitKeys /\ frames < MaxFrames
          /\ Ended("io_error", term, "Matrix", Got(ev),
                   PollLog(ev) \o <<"clear">> \o FrameLog(Cardinality(DOMAIN columns))
                     \o <<"flush">>, "flush")

\* the Paused arm with the columns updated while paused
PausedIter_Animates(ev, cfail) ==
    /\ pc = "loop" /\ app_state = "Paused"
    /\ ev \in Keys \cup NonKeys
    /\ LET next == IF ev \in Keys THEN PausedKey(ev) ELSE "Paused"
           log == DrawUiLog(FALSE) \o <<"read">>
       IN IF next = "break"
          THEN Cleanup("Paused", Got(ev), log, cfail)
          ELSE /\ cfail = "none"
               /\ app_state' = next
               /\ last' = [state |-> "Paused", got |-> Got(ev), log |-> log, failed |-> "none"]
               /\ \E d \in DrawsFor(columns, THEMES[config.theme_index],
                                    KeyAt(config.language_index)) :
                     LET u == UpdateAll(columns, THEMES[config.theme_index], d) IN
                     /\ columns' = [c \in DOMAIN columns |-> u[c].col]
                     /\ obs' = [c \in DOMAIN columns |-> Observe(obs[c], columns[c], u[c],
                                THEMES[config.theme_index])]
               /\ UNCHANGED <<build, config, language_keys, term, pc, frames>>

\* Paused arm: overlay the status line, block for an event, match the key
PausedIter(ev, cfail) ==
    /\ pc = "loop" /\ app_state = "Paused"
    /\ ev \in Keys \cup NonKeys
    /\ LET next == IF ev \in Keys THEN PausedKey(ev) ELSE "Paused"
           log == DrawUiLog(FALSE) \o <<"read">>
       IN IF next = "break"
          THEN Cleanup("Paused", Got(ev), log, cfail)
          ELSE /\ cfail = "none"
               /\ app_state' = next
               /\ last' = [state |-> "Paused", got |-> Got(ev), log |-> log, failed |-> "none"]
               /\ UNCHANGED <<build, columns, obs, config, language_keys, term, pc, frames>>

\* Paused arm, a terminal call of draw_ui or the read returns Err
PausedFail(stage) ==
    /\ pc = "loop" /\ app_state = "Paused"
    /\ \/ /\ stage = "print"
          /\ Ended("io_error", term, "Paused", "none", <<"print">>, "print")
       \/ /\ stage = "flush"
          /\ Ended("io_error", term, "Paused", "none", <<"print", "flush">>, "flush")
       \/ /\ stage = "read"
          /\ Ended("io_error", term, "Paused", "none", DrawUiLog(FALSE) \o <<"read">>, "read")

\* the Config arm with the quit key ending the loop as in the other arms
ConfigIter_QuitOnQ(ev) ==
    /\ pc = "loop" /\ app_state = "Config"
    /\ ev \in Keys \cup NonKeys
    /\ LET r == IF ev \in Keys THEN ConfigKey(config, ev)
                ELSE [state |-> "Config", config |-> config]
           log == DrawUiLog(TRUE) \o <<"read">>
       IN IF ev \in QuitKeys
          THEN Cleanup("Config", Got(ev), log, "none")
          ELSE /\ app_state' = r.state
               /\ config' = r.config
               /\ last' = [state |-> "Config", got |-> Got(ev), log |-> log,
                           failed |-> "none"]
               /\ UNCHANGED <<build, columns, obs, language_keys, term, pc, frames>>

\* Config arm: clear and draw the menu, block for an event, match the key
ConfigIter(ev) ==
    /\ pc = "loop" /\ app_state = "Config"
    /\ ev \in Keys \cup NonKeys
    /\ IF config.language_index + 1 \notin DOMAIN language_keys
       THEN Ended("panicked", term, "Config", Got(ev), <<>>, "index")
       ELSE LET r == IF ev \in Keys THEN ConfigKey(config, ev)
                     ELSE [state |-> "Config", config |-> config]
                log == DrawUiLog(TRUE) \o <<"read">>
            IN IF r.config.speed_level < 0
               THEN Ended("panicked", term, "Config", Got(ev), log, "overflow")
               ELSE /\ app_state' = r.state
                    /\ config' = r.config
                    /\ last' = [state |-> "Config", got |-> Got(ev), log |-> log,
                                failed |-> "none"]
                    /\ UNCHANGED <<build, columns, obs, language_keys, term, pc, frames>>

\* Config arm, a terminal call of draw_ui or the read returns Err
ConfigFail(stage) ==
    /\ pc = "loop" /\ app_state = "Config"
    /\ config.language_index + 1 \in DOMAIN language_keys
    /\ \/ /\ stage = "clear"
          /\ Ended("io_error", term, "Config", "none", <<"clear">>, "clear")
       \/ /\ stage = "print"
          /\ Ended("io_error", term, "Config", "none", <<"clear", "print">>, "print")
       \/ /\ stage = "flush"
          /\ Ended("io_error", term, "Config", "none", DrawUiLog(TRUE), "flush")
       \/ /\ stage = "read"
          /\ Ended("io_error", term, "Config", "none", DrawUiLog(TRUE) \o <<"read">>, "read")

CleanupOutcomes == CleanupCalls \cup {"none"}

\* lines 197-207: the state when the loop is entered, for a terminal of a
\* height that Column::new accepts
InitLoop(width, height) ==
    /\ \E d \in [0..((width \div 2) - 1) -> [len : LenRange(height), speed : SpeedRange]] :
          columns = [x \in 0..((width \div 2) - 1) |->
                        ColumnNew(x, height, d[x].len, d[x].speed)]
    /\ obs = [x \in DOMAIN columns |-> ObsInit(columns[x])]
    /\ app_state = "Matrix"
    /\ config = [theme_index |-> 0, speed_level |-> InitSpeedLevel, language_index |-> 0]
    /\ language_keys \in SampleOrders
    /\ term = TermInLoop
    /\ pc = "loop"
    /\ frames = 0
    /\ last = [state |-> "start", got |-> "none", log |-> <<>>, failed |-> "none"]
    /\ build \in BuildsAt(height)

\* lines 197-203: the first Column::new panics in gen_range (line 111) on an
\* empty length range, after the alternate screen was entered, the cursor
\* hidden and raw mode enabled; the loop is never entered
InitPanic ==
    /\ columns = NoCols
    /\ obs = NoCols
    /\ app_state = "Matrix"
    /\ config = [theme_index |-> 0, speed_level |-> InitSpeedLevel, language_index |-> 0]
    /\ language_keys = <<"English", "Traditional Chinese", "Simplified Chinese">>
    /\ term = TermInLoop
    /\ pc = "panicked"
    /\ frames = 0
    /\ last = [state |-> "start", got |-> "none", log |-> <<>>, failed |-> "range"]
    /\ build = "release"

\* lines 198-201: the calls of the setup that can return Err, in order
SetupCalls == {"size", "enter", "hide", "enable_raw"}

\* the terminal when a call of the setup fails: nothing is changed before
\* size and EnterAlternateScreen succeed, execute! stops at the first command
\* that fails (Hide after the alternate screen was entered), and raw mode is
\* not on when enable_raw_mode fails
SetupFailTerm(stage) ==
    [alternate |-> stage \in {"hide", "enable_raw"},
     cursor_hidden |-> stage = "enable_raw",
     raw |-> FALSE]

\* lines 198-201: terminal::size, EnterAlternateScreen, Hide or
\* enable_raw_mode returns Err and the ? operator returns it from main, before
\* any column is created; the loop is never entered and lines 298-299 do not run
InitFail(stage) ==
    /\ columns = NoCols
    /\ obs = NoCols
    /\ app_state = "Matrix"
    /\ config = [theme_index |-> 0, speed_level |-> InitSpeedLevel, language_index |-> 0]
    /\ language_keys = <<"English", "Traditional Chinese", "Simplified Chinese">>
    /\ term = SetupFailTerm(stage)
    /\ pc = "io_error"
    /\ frames = 0
    /\ last = [state |-> "start", got |-> "none", log |-> <<>>, failed |-> stage]
    /\ build = "release"

Init ==
    \/ \E stage \in SetupCalls : InitFail(stage)
    \/ \E width \in Widths, height \in StartHeights :
          IF width \div 2 > 0 /\ LenRange(height) = {}
          THEN InitPanic
          ELSE InitLoop(width, height)

Next ==
    \/ \E ev \in {"Timeout"} \cup NonKeys \cup Keys : MatrixFrame(ev)
    \/ \E ev \in QuitKeys, cfail \in CleanupOutcomes : MatrixQuit(ev, cfail)
    \/ \E ev \in FailEvents,
          stage \in {"poll", "read", "clear", "draw", "flush"} : MatrixFail(ev, stage)
    \/ \E ev \in Keys \cup NonKeys, cfail \in CleanupOutcomes : PausedIter(ev, cfail)
    \/ \E stage \in {"print", "flush", "read"} : PausedFail(stage)
    \/ \E ev \in Keys \cup NonKeys : ConfigIter(ev)
    \/ \E stage \in {"clear", "print", "flush", "read"} : ConfigFail(stage)

Spec == Init /\ [][Next]_vars


----------------------------------------------------------------------------
(* The column on its own: Column::new followed by update calls with any     *)
(* colour scheme and character-set key                                      *)

ColumnThemes == {0, 3}
ColumnKeys == {"English", "Traditional Chinese"}

InitColumn ==
    /\ \E height \in MinHeight..MaxColHeight :
         /\ \E len \in LenRange(height), speed \in SpeedRange :
               columns = [x \in {0} |-> ColumnNew(x, height, len, speed)]
         /\ build \in BuildsAt(height)
    /\ obs = [x \in DOMAIN columns |-> ObsInit(columns[x])]
    /\ app_state = "Matrix"
    /\ config = [theme_index |-> 0, speed_level |-> InitSpeedLevel, language_index |-> 0]
    /\ language_keys = <<"English", "Traditional Chinese", "Simplified Chinese">>
    /\ term = TermInLoop
    /\ pc = "loop"
    /\ frames = 0
    /\ last = [state |-> "start", got |-> "none", log |-> <<>>, failed |-> "none"]

\* one call col.update(colors, language_key) on every column, with draws d;
\* in the debug build the call may panic at line 161
ColumnStep(theme, d) ==
    \E u \in {UpdateAll(columns, THEMES[theme], d)} :
    IF Overflowed(u)
    THEN Ended("panicked", term, "Matrix", "timeout", <<"update">>, "add_overflow")
    ELSE /\ columns' = [c \in DOMAIN columns |-> u[c].col]
         /\ obs' = [c \in DOMAIN columns |->
                      Observe(obs[c], columns[c], u[c], THEMES[theme])]
         /\ UNCHANGED <<build, app_state, config, language_keys, term, pc, frames, last>>

ColumnUpdate(theme, language_key) ==
    /\ pc = "loop"
    /\ \E d \in DrawsFor(columns, THEMES[theme], language_key) : ColumnStep(theme, d)

NextColumn == \E theme \in ColumnThemes, key \in ColumnKeys : ColumnUpdate(theme, key)

SpecColumn == InitColumn /\ [][NextColumn]_vars


----------------------------------------------------------------------------
(* The tall column: one column on a terminal of TallHeight rows, followed   *)
(* while every length drawn is one for which the sum of line 161 overflows  *)

\* the lengths gen_range can draw for which line 161 overflows
OverflowLens(height) == {len \in LenRange(height) : ResetSumOverflows(height, len)}

InitTall ==
    /\ \E len \in OverflowLens(TallHeight), speed \in SpeedRange :
          columns = [x \in {0} |-> ColumnNew(x, TallHeight, len, speed)]
    /\ obs = [x \in DOMAIN columns |-> ObsInit(columns[x])]
    /\ app_state = "Matrix"
    /\ config = [theme_index |-> 0, speed_level |-> InitSpeedLevel, language_index |-> 0]
    /\ language_keys = <<"English", "Traditional Chinese", "Simplified Chinese">>
    /\ term = TermInLoop
    /\ pc = "loop"
    /\ frames = 0
    /\ last = [state |-> "start", got |-> "none", log |-> <<>>, failed |-> "none"]
    /\ build \in BuildsAt(TallHeight)

\* one call col.update(colors, language_key) on the tall column.  The call is
\* evaluated once, with the first overflowing length and the smallest speed
\* as the draws of reset; when reset ran, the length and speed it drew are
\* then any overflowing length and any speed (reset assigns head, len, speed
\* and counter only, lines 117-124).
TallUpdate(theme, language_key) ==
    /\ pc = "loop"
    /\ \E glyph \in get_random_char(language_key) :
          \E u0 \in {[c \in DOMAIN columns |->
                        update(columns[c], THEMES[theme], glyph,
                               I16Max - TallHeight + 1, MinSpeed)]} :
             IF Overflowed(u0)
             THEN Ended("panicked", term, "Matrix", "timeout", <<"update">>, "add_overflow")
             ELSE \E d \in [DOMAIN columns -> [len : OverflowLens(TallHeight),
                                               speed : SpeedRange]] :
                    /\ \A c \in DOMAIN columns :
                          \/ u0[c].did = "reset"
                          \/ d[c].len = I16Max - TallHeight + 1 /\ d[c].speed = MinSpeed
                    /\ columns' = [c \in DOMAIN columns |->
                                     IF u0[c].did = "reset"
                                     THEN reset(u0[c].col, d[c].len, d[c].speed)
                                     ELSE u0[c].col]
                    /\ obs' = [c \in DOMAIN columns |->
                                 Observe(obs[c], columns[c], u0[c], THEMES[theme])]
                    /\ UNCHANGED <<build, app_state, config, language_keys, term, pc,
                                   frames, last>>

NextTall == TallUpdate(0, "English")

SpecTall == InitTall /\ [][NextTall]_vars

\* the tall column when the update calls never stop coming
SpecTallLive == SpecTall /\ WF_vars(NextTall)

----------------------------------------------------------------------------
(* Claims about the column *)

Cols == DOMAIN columns

\* no character set contains the blank
NoBlankGlyph == \A k \in DOMAIN ALL_CHAR_SETS : Blank \notin ALL_CHAR_SETS[k]

\* C1: in every reachable state of every column, each cell has lifetime 0
\* exactly when its glyph is the blank (the character sets holding no blank)
C1_LifetimeZeroIffBlank ==
    /\ NoBlankGlyph
    /\ \A c \in Cols : \A r \in Rows(columns[c].cells) :
          (CellAt(columns[c].cells, r).lifetime = 0) <=> (CellAt(columns[c].cells, r).char = Blank)

\* C1 witness: a stream whose first cell was lit and has decayed back to blank
\* while the next cell is still lit
C1_Witness ==
    \E c \in Cols :
       /\ columns[c].head = columns[c].len
       /\ CellAt(columns[c].cells, 0).lifetime = 0 /\ CellAt(columns[c].cells, 0).char = Blank
       /\ CellAt(columns[c].cells, 0).color # "Black"
       /\ CellAt(columns[c].cells, 1).lifetime = 1 /\ CellAt(columns[c].cells, 1).char # Blank

\* C5: a call made when fewer than speed - 1 calls have passed since the last
\* advance changes only the tick counter; the call that completes the speed
\* divisor increments the head by exactly 1 (and the head keeps that value
\* unless the same call resets the column)
C5_ThrottleStep ==
    [][\A c \in Cols \cap DOMAIN columns' :
          LET col == columns[c]
              since == obs[c].since
          IN IF since + 1 < col.speed
             THEN /\ columns'[c] = [col EXCEPT !.counter = col.counter + 1]
                  /\ obs'[c].did = "throttled"
                  /\ obs'[c].since = since + 1
             ELSE /\ since + 1 = col.speed
                  /\ obs'[c].did \in {"advanced", "reset"}
                  /\ obs'[c].chk_head = col.head + 1
                  /\ obs'[c].did = "advanced" =>
                        /\ columns'[c].head = col.head + 1
                        /\ columns'[c].len = col.len
                        /\ columns'[c].speed = col.speed
                        /\ columns'[c].counter = 0]_vars

\* C5 witness: a column of speed 4 with a lit cell, three calls after its
\* last advance
C5_Witness ==
    \E c \in Cols :
       /\ columns[c].speed = MaxSpeed /\ obs[c].since = MaxSpeed - 1
       /\ obs[c].did = "throttled"
       /\ columns[c].head >= 0 /\ Painted(columns[c]) # {}

\* C6: from one update call to the next the head never decreases, except
\* that a call which resets the column leaves it at -1; and a call resets the
\* column only when the incremented head is at least the height plus the
\* stream length that was in force before the reset
C6_HeadMonotone ==
    [][\A c \in Cols \cap DOMAIN columns' :
          /\ \/ columns'[c].head >= columns[c].head
             \/ columns'[c].head = StartHead /\ obs'[c].did = "reset"
          /\ obs'[c].did = "reset" /\ obs'[c] # obs[c] =>
                /\ columns'[c].head = StartHead
                /\ obs'[c].chk_head = columns[c].head + 1
                /\ obs'[c].chk_len = columns[c].len
                /\ columns[c].head + 1 >= Height(columns[c]) + columns[c].len]_vars

\* C7: counting update calls from creation or from the last reset, for
\* height H, length L and speed s: after n*s calls (1 <= n <= H+L) the head
\* is n-1 and no reset has happened; after s calls cell 0 is lit with
\* lifetime L; after L*s calls cells 0..L-1 are all lit; and the reset fires
\* during call number s*(H+L+1), not earlier
C7_ResetSchedule ==
    \A c \in Cols :
       LET col == columns[c]
           o == obs[c]
           H == Height(col)
       IN /\ \A n \in 1..(H + col.len) :
                o.calls = n * col.speed => col.head = n - 1 /\ o.did # "reset"
          /\ o.calls < col.speed * (H + col.len + 1)
          /\ o.calls = col.speed =>
                CellAt(col.cells, 0).lifetime = col.len /\ CellAt(col.cells, 0).char # Blank
          /\ o.calls = col.len * col.speed =>
                \A r \in 0..(col.len - 1) : CellAt(col.cells, r).lifetime > 0
          /\ o.did = "reset" => o.reset_at = o.chk_speed * (H + o.chk_len + 1)
          /\ (H = 20 /\ col.len = 10 /\ col.speed = 1) =>
                /\ o.calls = 1 => col.head = 0 /\ CellAt(col.cells, 0).lifetime = 10
                /\ o.calls = 10 =>
                      col.head = 9 /\ \A r \in 0..9 : CellAt(col.cells, r).lifetime > 0
                /\ o.calls = 30 => col.head = 29 /\ o.did = "advanced"
          /\ (H = 20 /\ o.did = "reset" /\ o.chk_len = 10 /\ o.chk_speed = 1) =>
                o.reset_at = 31

----------------------------------------------------------------------------
(* Claims about the controller *)

TermRestored == [cursor_hidden |-> FALSE, alternate |-> FALSE, raw |-> FALSE]

\* the columns one update call with the current theme and language can give
UpdateOutcomes(c) ==
    {update(columns[c], THEMES[config.theme_index], d.glyph, d.len, d.speed).col :
        d \in [glyph : get_random_char(KeyAt(config.language_index)),
               len : LenRange(Height(columns[c])),
               speed : SpeedRange]}

FrameCalls == {"clear", "update", "draw"}
LogHas(calls) == \E i \in DOMAIN last.log : last.log[i] \in calls

\* C2: whenever main has left the loop it had entered, other than by a
\* failure of a cleanup call itself, the cleanup has run: cursor shown,
\* alternate screen left, raw mode disabled
C2_CleanupOnEveryExit ==
    (pc # "loop" /\ last.state # "start" /\ last.failed \notin CleanupCalls) =>
       term = TermRestored

\* C3 as stated: a Matrix iteration that received an event (no timeout) and
\* stays in the loop leaves every column unchanged
C3_NoTickOnKey ==
    [][(app_state = "Matrix" /\ pc' = "loop" /\ last'.got # "timeout")
          => columns' = columns]_vars

\* C3 amended: every Matrix iteration that stays in the loop, whether the
\* poll timed out or delivered a key or another event, performs one animation
\* tick: exactly one update call on every column; a key that is not quit,
\* pause or config leaves the state Matrix and the tick still happens
C3_TickEveryIteration ==
    [][(app_state = "Matrix" /\ pc = "loop" /\ pc' = "loop")
          => /\ last'.state = "Matrix"
             /\ last'.got \in {"timeout", "key", "nonkey"}
             /\ frames' = frames + 1
             /\ \A c \in Cols : columns'[c] \in UpdateOutcomes(c)
             /\ \A c \in Cols : columns'[c] # columns[c]
             /\ LogHas(FrameCalls)']_vars

\* C3 witness: the only frame so far was performed by an iteration that
\* received an ignored key, and it advanced a column
C3_Witness ==
    /\ pc = "loop" /\ app_state = "Matrix"
    /\ last.state = "Matrix" /\ last.got = "key"
    /\ frames = 1
    /\ \E c \in Cols : obs[c].did = "advanced" /\ columns[c].head = 0
                       /\ CellAt(columns[c].cells, 0).lifetime = columns[c].len

\* C4 as stated: the iteration that moves from Matrix to Paused performs no
\* screen clear, no column update and no redraw
C4_PauseLeavesScreen ==
    [][(app_state = "Matrix" /\ app_state' = "Paused")
          => columns' = columns /\ ~LogHas(FrameCalls)']_vars

\* C4 amended: the iteration that receives the pause key in Matrix state
\* still performs its frame (clear, one update and draw of every column,
\* flush) and then the state is Paused; once in Paused, no iteration clears
\* the screen, updates or redraws a column
C4_PauseAfterFrame ==
    [][/\ (app_state = "Matrix" /\ app_state' = "Paused")
          => /\ last'.log = <<"poll", "read", "clear">>
                               \o FrameLog(Cardinality(Cols)) \o <<"flush">>
             /\ frames' = frames + 1
             /\ \A c \in Cols : columns'[c] \in UpdateOutcomes(c)
       /\ (app_state = "Paused" /\ pc' = "loop" /\ last' # last)
          => /\ columns' = columns
             /\ last'.state = "Paused"
             /\ ~LogHas(FrameCalls)']_vars

\* C4 witness: Paused was entered from Matrix by an iteration that performed
\* the only frame so far and advanced a column
C4_Witness ==
    /\ pc = "loop" /\ app_state = "Paused"
    /\ last.state = "Matrix" /\ last.got = "key"
    /\ frames = 1 /\ LogHas({"update"})
    /\ \E c \in Cols : obs[c].did = "advanced" /\ columns[c].head = 0

\* C8: the speed level stays in [1,10]; in every reachable configuration an
\* increase gives min(level+1, 10), a decrease gives max(level-1, 1), and
\* the subtraction never goes below 0
C8_SpeedClamped ==
    LET l == config.speed_level IN
    /\ l \in MinSpeedLevel..MaxSpeedLevel
    /\ last.failed # "overflow"
    /\ \A k \in {"+", "="} :
          ConfigKey(config, k).config.speed_level = (IF l = 10 THEN 10 ELSE l + 1)
    /\ ConfigKey(config, "-").config.speed_level = (IF l = 1 THEN 1 ELSE l - 1)
    /\ l - 1 >= 0

\* C8 witness: the level has been raised from 5 to the upper clamp in the
\* configuration menu
C8_Witness ==
    /\ app_state = "Config" /\ last.state = "Config" /\ last.got = "key"
    /\ config.speed_level = MaxSpeedLevel

\* C9: the theme index stays in [0,4); next maps 3 to 0 and otherwise adds 1,
\* previous maps 0 to 3 and otherwise subtracts 1; next and previous are
\* inverse of each other, and four next presses give the index back
C9_ThemeWraps ==
    LET t == config.theme_index
        Right(cfg) == ConfigKey(cfg, "Right").config
        Left(cfg) == ConfigKey(cfg, "Left").config
    IN /\ t \in 0..3
       /\ Right(config).theme_index = (IF t = 3 THEN 0 ELSE t + 1)
       /\ Left(config).theme_index = (IF t = 0 THEN 3 ELSE t - 1)
       /\ Left(Right(config)) = config
       /\ Right(Left(config)) = config
       /\ Right(Right(Right(Right(config)))) = config

\* C9 witness: the last theme is selected in the configuration menu
C9_Witness ==
    /\ app_state = "Config" /\ last.state = "Config" /\ last.got = "key"
    /\ config.theme_index = ThemesLen - 1

\* C10: an iteration in Paused or Config state that stays in the loop
\* changes no column (cells, head, length, speed, counter) and performs no
\* frame
C10_NoAdvanceWhileSuspended ==
    [][(app_state \in {"Paused", "Config"} /\ pc' = "loop")
          => columns' = columns /\ obs' = obs /\ frames' = frames]_vars

\* C10 witness: a key was received in Paused state, the state is still
\* Paused, and a column has lit cells
C10_Witness ==
    /\ pc = "loop" /\ app_state = "Paused"
    /\ last.state = "Paused" /\ last.got = "key"
    /\ \E c \in Cols : Painted(columns[c]) # {}


\* C11: a quit key (q or Escape) received in Matrix state ends the loop in
\* that iteration: after poll and read the only calls are those of the
\* cleanup (no clear, update, draw or flush), the state never becomes Paused
\* or Config, and nothing happens after main has ended
C11_QuitEndsLoop ==
    /\ \A ev \in QuitKeys : MatrixKey(ev) = "break"
    /\ (pc # "loop" /\ last.state = "Matrix" /\ last.failed \in CleanupOutcomes)
          => /\ last.got = "key"
             /\ app_state = "Matrix"
             /\ Len(last.log) >= 2 /\ last.log[1] = "poll" /\ last.log[2] = "read"
             /\ \A i \in DOMAIN last.log :
                   i > 2 => last.log[i] \in CleanupCalls
    /\ pc # "loop" => ~ENABLED Next

\* C11 witness: main returned Ok after a quit key in Matrix state, a frame
\* having been performed before
C11_Witness ==
    /\ pc = "done" /\ last.state = "Matrix" /\ last.got = "key"
    /\ frames >= 1 /\ term = TermRestored


\* C13: in every reachable controller state the table indices are valid:
\* speed_level - 1 indexes the ten speed durations, theme_index the four
\* themes, language_index the list of character-set keys, whose entry is a
\* registered key; no lookup has panicked
C13_IndicesValid ==
    /\ config.speed_level - 1 \in 0..9
    /\ config.speed_level - 1 \in DOMAIN SPEED_DURATIONS
    /\ config.theme_index \in 0..3
    /\ config.theme_index \in DOMAIN THEMES
    /\ Len(language_keys) = Cardinality(DOMAIN ALL_CHAR_SETS)
    /\ config.language_index \in 0..(Len(language_keys) - 1)
    /\ language_keys[config.language_index + 1] \in DOMAIN ALL_CHAR_SETS
    /\ last.failed \notin {"index", "overflow"}
    /\ pc = "panicked" => last.failed \in {"draw", "range", "add_overflow"}

\* C13 witness: a frame has been performed (all three lookups made) with the
\* largest speed level, theme index and language index
C13_Witness ==
    /\ pc = "loop" /\ last.state = "Matrix" /\ LogHas({"update"})
    /\ config.speed_level = MaxSpeedLevel
    /\ config.theme_index = ThemesLen - 1
    /\ config.language_index = Len(language_keys) - 1


----------------------------------------------------------------------------
(* Further claims about the column *)

Max2(a, b) == IF a >= b THEN a ELSE b
Min2(a, b) == IF a <= b THEN a ELSE b

\* C14: right after a call that advanced the head (to h, with length L and
\* colour scheme K), the cells with lifetime > L - 3 are exactly the on-screen
\* rows among h-2..h; the head row, if on screen, has K.head and lifetime L,
\* the other rows of the band have K.trail, every other lit cell has K.fade
C14_BrightBand ==
    \A c \in Cols :
       LET col == columns[c]
           o == obs[c]
           L == o.chk_len
           h == o.chk_head
           K == o.colors
           RowSet == Rows(col.cells)
           Band == {r \in RowSet : CellAt(col.cells, r).lifetime > L - 3}
       IN o.did \in {"advanced", "reset"} =>
             /\ Band = {r \in RowSet : h - 2 <= r /\ r <= h}
             /\ Cardinality(Band) <= 3
             /\ h \in RowSet => /\ CellAt(col.cells, h).color = K.head
                              /\ CellAt(col.cells, h).lifetime = L
             /\ \A r \in Band \ {h} : CellAt(col.cells, r).color = K.trail
             /\ \A r \in RowSet \ Band :
                   CellAt(col.cells, r).lifetime > 0 => CellAt(col.cells, r).color = K.fade

\* C14 witness: the head has just advanced to an on-screen row under the
\* fourth theme, with a full band of three rows and a fading cell above it
C14_Witness ==
    \E c \in Cols :
       /\ obs[c].did = "advanced" /\ obs[c].colors = THEMES[3]
       /\ columns[c].head >= 3 /\ columns[c].head < Height(columns[c])
       /\ CellAt(columns[c].cells, columns[c].head).color = "Cyan"
       /\ CellAt(columns[c].cells, columns[c].head - 1).color = "Magenta"
       /\ CellAt(columns[c].cells, columns[c].head - 2).color = "Magenta"
       /\ CellAt(columns[c].cells, columns[c].head - 3).color = "DarkMagenta"
       /\ CellAt(columns[c].cells, columns[c].head - 3).lifetime > 0

\* C15: right after a call in which reset fired, every cell of the column
\* has lifetime 0 and a blank glyph
C15_ResetOnDarkColumn ==
    \A c \in Cols :
       obs[c].did = "reset" =>
          \A r \in Rows(columns[c].cells) :
             /\ CellAt(columns[c].cells, r).lifetime = 0
             /\ CellAt(columns[c].cells, r).char = Blank

\* C18: in every state between update calls, lifetime[r] is
\* max(0, len - (head - r)) for 0 <= r <= head and 0 otherwise; so the lit
\* cells are the rows from max(0, head - len + 1) to min(head, height - 1),
\* at most len of them, and every lifetime is in 0..len
C18_LifetimeClosedForm ==
    \A c \in Cols :
       LET col == columns[c]
           RowSet == Rows(col.cells)
           H == Height(col)
       IN /\ \A r \in RowSet :
                /\ CellAt(col.cells, r).lifetime =
                      (IF 0 <= r /\ r <= col.head
                       THEN Max2(0, col.len - (col.head - r)) ELSE 0)
                /\ CellAt(col.cells, r).lifetime >= 0
                /\ CellAt(col.cells, r).lifetime <= col.len
          /\ Painted(col) = {r \in RowSet : /\ Max2(0, col.head - col.len + 1) <= r
                                          /\ r <= Min2(col.head, H - 1)}
          /\ Cardinality(Painted(col)) <= col.len

\* C19: between update calls 5 <= len <= height / 2, 1 <= speed <= 4,
\* 0 <= counter < speed, -1 <= head < height + len, and the column has as many
\* cells as the height it was created with
C19_ParameterBounds ==
    \A c \in Cols :
       LET col == columns[c]
           H == obs[c].height
       IN /\ H >= MinHeight
          /\ Len(col.cells) = H
          /\ Height(col) = H
          /\ 5 <= col.len /\ col.len <= H \div 2
          /\ 1 <= col.speed /\ col.speed <= 4
          /\ 0 <= col.counter /\ col.counter < col.speed
          /\ -1 <= col.head /\ col.head < H + col.len

\* C19 witness: a column at the upper end of every range, in a stream drawn
\* by a reset: longest length above 5, speed 4, counter 3, head at
\* height + len - 1
C19_Witness ==
    \E c \in Cols :
       /\ obs[c].calls > 0
       /\ columns[c].len = Height(columns[c]) \div 2 /\ columns[c].len > MinLen
       /\ columns[c].speed = MaxSpeed /\ columns[c].counter = MaxSpeed - 1
       /\ columns[c].head = Height(columns[c]) + columns[c].len - 1


----------------------------------------------------------------------------
(* Further claims about the controller *)

\* C16: in the Config state c and Esc lead to Matrix and every other key
\* (q included) leaves the state Config; an iteration of the Config arm that
\* received a key continues the loop, in Config or Matrix; the loop is left
\* by break (pc = "done" or a failed cleanup call) only from Matrix or Paused,
\* and the Config arm ends the process only when a terminal call fails before
\* a key is received
C16_ConfigKeys ==
    /\ \A k \in Keys :
          ConfigKey(config, k).state = IF k \in {"c", "Esc"} THEN "Matrix" ELSE "Config"
    /\ (last.state = "Config" /\ last.got = "key") =>
          /\ pc = "loop"
          /\ app_state \in {"Config", "Matrix"}
    /\ (pc # "loop" /\ last.state = "Config") =>
          /\ pc = "io_error"
          /\ last.got = "none"
          /\ last.failed \in {"clear", "print", "flush", "read"}
    /\ pc = "done" => last.state \in {"Matrix", "Paused"}
    /\ (pc # "loop" /\ last.failed \in CleanupCalls) => last.state \in {"Matrix", "Paused"}

\* C16 witness: an iteration of the Config arm received a key and the
\* controller is back in Matrix with the configuration changed in the menu
C16_Witness ==
    /\ pc = "loop" /\ app_state = "Matrix"
    /\ last.state = "Config" /\ last.got = "key"
    /\ config.speed_level # InitSpeedLevel

\* C17: when the loop is entered the key selected by language_index is
\* "English"
C17_StartsEnglish ==
    last.state = "start" =>
       /\ config.language_index = 0
       /\ KeyAt(config.language_index) = "English"


----------------------------------------------------------------------------
(* Progress of the column *)

\* the update calls a column still needs up to and including the one in
\* which reset fires.  When the sum of line 161 overflows, the release build
\* resets at the next advance.
CallsToReset(col) ==
    IF ResetSumOverflows(Height(col), col.len)
    THEN col.speed - col.counter
    ELSE col.speed * (Height(col) + col.len - col.head) - col.counter

\* the largest number of update calls between two resets
ResetBound(height) == MaxSpeed * (height + height \div 2 + 1)

\* C20 (bounded part): in every state the column is at most
\* 4 * (height + height/2 + 1) update calls away from its next reset, the
\* distance falls by one with every call of the stream, and the call in which
\* reset fired came within that bound
C20_ResetDistance ==
    \A c \in Cols :
       LET col == columns[c]
           o == obs[c]
           H == Height(col)
       IN /\ CallsToReset(col) >= 1
          /\ CallsToReset(col) <= ResetBound(H)
          /\ o.calls + CallsToReset(col) =
                (IF ResetSumOverflows(H, col.len) THEN col.speed
                 ELSE col.speed * (H + col.len + 1))
          /\ o.calls < ResetBound(H)
          /\ o.did = "reset" =>
                /\ o.reset_at <= ResetBound(H)
                /\ col.head = StartHead

\* the head of every column is on a row of the screen
HeadOnScreen ==
    \A c \in Cols : columns[c].head >= 0 /\ columns[c].head < Height(columns[c])

\* no cell of any column is lit
AllDark ==
    \A c \in Cols : \A r \in Rows(columns[c].cells) : CellAt(columns[c].cells, r).lifetime = 0

\* C20: while the loop keeps running and update keeps being called, every
\* column is always within 4 * (height + height/2 + 1) calls of a reset and
\* resets infinitely often, its head is on screen again and again, and its
\* cells are all dark again and again (no cell stays lit for ever)
C20_ResetsForever ==
    [](pc = "loop") =>
       /\ [] C20_ResetDistance
       /\ []<>(\A c \in Cols : obs[c].did = "reset")
       /\ []<>HeadOnScreen
       /\ []<>AllDark

====
